---- MODULE Spec2Model ----
(***************************************************************************)
(* Membership signup verification and account approval of Samaj_app_api.   *)
(*                                                                         *)
(* Strings that the code inspects character by character (member ids and  *)
(* phone numbers) are sequences of one-character strings; strings that it *)
(* only compares (emails, status words) are TLA+ strings.                  *)
(***************************************************************************)
EXTENDS Integers, Sequences, FiniteSets, TLC

\* ------------------------------------------------------------------------
\* JavaScript string and number helpers
\* ------------------------------------------------------------------------

\* the value null, and the empty string, as character sequences
Null == <<"null">>
Empty == <<>>

Digit == {"0", "1", "2", "3", "4", "5", "6", "7", "8", "9"}

IsDigitChar(c) == c \in Digit

\* /^\d*$/ on a character sequence
AllDigits(s) == \A i \in 1..Len(s) : s[i] \in Digit

\* s.replace(/\D/g, '')
StripNonDigits(s) == SelectSeq(s, IsDigitChar)

\* the positions of s that hold another character than c
PositionsNot(s, c) == {i \in 1..Len(s) : s[i] # c}

Least(S) == CHOOSE i \in S : \A j \in S : i <= j

Greatest(S) == CHOOSE i \in S : \A j \in S : j <= i

TrimLeft(s) ==
    IF PositionsNot(s, " ") = {} THEN <<>> ELSE SubSeq(s, Least(PositionsNot(s, " ")), Len(s))

TrimRight(s) ==
    IF PositionsNot(s, " ") = {} THEN <<>> ELSE SubSeq(s, 1, Greatest(PositionsNot(s, " ")))

\* String.prototype.trim
Trim(s) == TrimRight(TrimLeft(s))

\* s.slice(-n), for Len(s) >= n
SliceLast(s, n) == SubSeq(s, Len(s) - n + 1, Len(s))

\* first index of a character of cs in s, 0 when there is none
IndexOf(s, cs) ==
    IF \E i \in 1..Len(s) : s[i] \in cs
    THEN CHOOSE i \in 1..Len(s) : s[i] \in cs /\ \A j \in 1..(i - 1) : s[j] \notin cs
    ELSE 0

HasChar(s, cs) == IndexOf(s, cs) # 0

StripLeadingZeros(s) ==
    IF PositionsNot(s, "0") = {} THEN <<"0">>
    ELSE SubSeq(s, Least(PositionsNot(s, "0")), Len(s))

DigitVal(c) ==
    CASE c = "0" -> 0 [] c = "1" -> 1 [] c = "2" -> 2 [] c = "3" -> 3 [] c = "4" -> 4
      [] c = "5" -> 5 [] c = "6" -> 6 [] c = "7" -> 7 [] c = "8" -> 8 [] c = "9" -> 9

DigitsVal(s) ==
    LET val[i \in 0..Len(s)] == IF i = 0 THEN 0 ELSE 10 * val[i - 1] + DigitVal(s[i])
    IN  val[Len(s)]

Zeros(n) == [i \in 1..n |-> "0"]

\* String(Math.trunc(Number(raw))) together with Number.isFinite(Number(raw)),
\* for a trimmed non-empty raw over the alphabet digits, sign, '.', 'e', 'E'
\* and other characters (which make the literal NaN).  The digits are exact
\* for magnitudes below 2^53, which the inputs of this model stay within.
\* The literal is taken apart in stages: sign, exponent, decimal point, digits.
NumberSigned(canon, neg) ==
    [finite |-> TRUE, str |-> IF neg /\ canon # <<"0">> THEN <<"-">> \o canon ELSE canon]

NumberShifted(all, point, neg) ==
    NumberSigned(StripLeadingZeros(IF point <= 0 THEN <<>>
                                   ELSE IF point <= Len(all) THEN SubSeq(all, 1, point)
                                   ELSE all \o Zeros(point - Len(all))),
                 neg)

NumberOfDigits(intP, fracP, expDigits, expNeg, hasExp, neg) ==
    IF /\ hasExp => (expDigits # <<>> /\ AllDigits(expDigits))
       /\ AllDigits(intP)
       /\ AllDigits(fracP)
       /\ Len(intP) + Len(fracP) > 0
    THEN NumberShifted(intP \o fracP,
                       Len(intP) + (IF ~hasExp THEN 0
                                    ELSE IF expNeg THEN 0 - DigitsVal(expDigits)
                                    ELSE DigitsVal(expDigits)),
                       neg)
    ELSE [finite |-> FALSE, str |-> <<>>]

NumberOfMantissa(mant, dPos, expDigits, expNeg, hasExp, neg) ==
    NumberOfDigits(IF dPos = 0 THEN mant ELSE SubSeq(mant, 1, dPos - 1),
                   IF dPos = 0 THEN <<>> ELSE SubSeq(mant, dPos + 1, Len(mant)),
                   expDigits, expNeg, hasExp, neg)

NumberOfParts(mant, expS, hasExp, neg) ==
    NumberOfMantissa(mant, IndexOf(mant, {"."}),
                     IF expS # <<>> /\ expS[1] \in {"+", "-"} THEN Tail(expS) ELSE expS,
                     expS # <<>> /\ expS[1] = "-", hasExp, neg)

NumberOfBody(body, ePos, neg) ==
    NumberOfParts(IF ePos = 0 THEN body ELSE SubSeq(body, 1, ePos - 1),
                  IF ePos = 0 THEN <<>> ELSE SubSeq(body, ePos + 1, Len(body)),
                  ePos # 0, neg)

NumberUnsigned(body, neg) == NumberOfBody(body, IndexOf(body, {"e", "E"}), neg)

NumberTrunc(raw) ==
    NumberUnsigned(IF raw[1] \in {"+", "-"} THEN Tail(raw) ELSE raw, raw[1] = "-")

\* ------------------------------------------------------------------------
\* Field values of stored documents: a string, a number, or absent
\* ------------------------------------------------------------------------

StrV(s) == [t |-> "str", v |-> s]
NumV(d) == [t |-> "num", v |-> d]
NoneV == [t |-> "none", v |-> <<>>]

\* String(value ?? '')
ToStr(f) == f.v

\* JavaScript truthiness of a field value
Truthy(f) == CASE f.t = "str" -> f.v # <<>> [] f.t = "num" -> f.v # <<"0">> [] OTHER -> FALSE

\* ------------------------------------------------------------------------
\* IdentifierNormalizer
\* ------------------------------------------------------------------------

\* /^[0-9]+\.[0]+$/
IsDecimalZeroForm(raw) ==
    LET dPos == IndexOf(raw, {"."})
    IN  /\ dPos > 1
        /\ dPos < Len(raw)
        /\ AllDigits(SubSeq(raw, 1, dPos - 1))
        /\ \A i \in (dPos + 1)..Len(raw) : raw[i] = "0"

\* the numeric repair of a trimmed value: applied when the value looks like a
\* spreadsheet number and denotes a finite one
Repaired(raw, looksNumeric, n) == IF looksNumeric /\ n.finite THEN n.str ELSE raw

NumericRepair(raw, looksNumeric) ==
    IF looksNumeric THEN Repaired(raw, looksNumeric, NumberTrunc(raw)) ELSE raw

MemberIdOfRaw(raw) ==
    IF raw = <<>> THEN <<>>
    ELSE NumericRepair(raw, IsDecimalZeroForm(raw) \/ HasChar(raw, {"e", "E"}))

normalizeMemberId(value) == MemberIdOfRaw(Trim(value))

\* a cut to ten digits that keeps the leading ones
First10(digits) == IF Len(digits) > 10 THEN SubSeq(digits, 1, 10) ELSE digits

\* digits.length > 10 ? digits.slice(-10) : digits
Last10(digits) == IF Len(digits) > 10 THEN SliceLast(digits, 10) ELSE digits

LenientOfNumber(raw, n) ==
    IF n.finite THEN Last10(n.str) ELSE Last10(StripNonDigits(raw))

LenientOfRaw(raw) ==
    IF raw = <<>> THEN <<>>
    ELSE IF HasChar(raw, {"e", "E", "."}) THEN LenientOfNumber(raw, NumberTrunc(raw))
    ELSE Last10(StripNonDigits(raw))

normalizePhoneLenient(value) == LenientOfRaw(Trim(value))

\* a strict normalizer that truncates long numbers instead of refusing them
ProvidedOfDigitsTruncating(digits) ==
    IF digits = <<>> THEN <<>>
    ELSE IF Len(digits) < 10 THEN Null
    ELSE SliceLast(digits, 10)

\* a strict normalizer that cuts one digit of the country code only
ProvidedOfDigitsOffByOne(digits) ==
    IF digits = <<>> THEN <<>>
    ELSE IF Len(digits) = 11 /\ digits[1] = "0" THEN Tail(digits)
    ELSE IF Len(digits) = 12 /\ SubSeq(digits, 1, 2) = <<"9", "1">> THEN SubSeq(digits, 2, 12)
    ELSE IF Len(digits) = 10 THEN digits
    ELSE Null

ProvidedOfDigits(digits) ==
    IF digits = <<>> THEN <<>>
    ELSE IF Len(digits) = 11 /\ digits[1] = "0" THEN Tail(digits)
    ELSE IF Len(digits) = 12 /\ SubSeq(digits, 1, 2) = <<"9", "1">> THEN SubSeq(digits, 3, 12)
    ELSE IF Len(digits) = 10 THEN digits
    ELSE Null

ProvidedOfRaw(raw) ==
    IF raw = <<>> THEN <<>>
    ELSE ProvidedOfDigits(StripNonDigits(NumericRepair(raw, HasChar(raw, {"e", "E", "."}))))

normalizePhoneProvided(value) == ProvidedOfRaw(Trim(value))

\* maybeNumber: the number a string of digits denotes, or null
maybeNumber(value) ==
    LET str == Trim(value)
    IN  IF str = <<>> \/ ~AllDigits(str) THEN Null ELSE StripLeadingZeros(str)


\* ------------------------------------------------------------------------
\* Bounds and input values
\* ------------------------------------------------------------------------

\* accounts ever created, the bootstrap admin included
MaxUsers == 3

Procs == {1, 2}

NoUser == 0
NoSlot == <<"none">>

AdminId == 1

P1 == <<"9", "8", "7", "6", "5", "4", "3", "2", "1", "0">>
P2 == <<"9", "8", "7", "6", "5", "4", "3", "2", "1", "1">>
M1 == <<"M", "1">>
K2 == <<"k", "2">>

\* request bodies a client may send
RawEmails == {"A@x", "b@x"}
RawMemberIds == {M1, <<"7", ".", "0">>, <<" ">>}
RawPhones == {<<"+", "9", "1", " ">> \o P1, <<"0">> \o P2, <<"1", "2", "3">>, <<>>}
Reasons == {"bad"}

\* String(email ?? '').trim().toLowerCase(), on the addresses above
normalizeEmail(e) == CASE e = "A@x" -> "a@x" [] OTHER -> e

\* the imported registry: document id and the fields the lookups read
Registry ==
    { [id |-> M1, memberId |-> StrV(M1), phoneNumber |-> StrV(P1),
       memberIdNormalized |-> StrV(M1), phoneNormalized |-> StrV(P1)],
      [id |-> K2, memberId |-> NoneV, phoneNumber |-> NumV(P2),
       memberIdNormalized |-> NoneV, phoneNormalized |-> NoneV] }

SlotIds == {r.id : r \in Registry}

SlotDoc(id) == CHOOSE r \in Registry : r.id = id

\* ------------------------------------------------------------------------
\* State
\* ------------------------------------------------------------------------

VARIABLES
    users,       \* users collection: document id -> account
    slots,       \* authorizedMembers collection: document id -> isUsed, usedBy, usedAt
    familyTree,  \* ids of the users that own a family tree entry
    nextId,      \* next fresh document id of the users collection
    req,         \* the signup request each handler is serving
    resp,        \* the response the last step sent, NoResp when it sent none
    call         \* the last direct call of a normalizer: its name, argument and result

vars == <<users, slots, familyTree, nextId, req, resp, call>>

IdleReq ==
    [pc |-> "idle", email |-> "", memberId |-> <<>>, phone |-> <<>>,
     exId |-> NoUser, exEmail |-> "", exStatus |-> "",
     reapplyUser |-> NoUser, am |-> NoSlot, amUsed |-> FALSE, amUsedBy |-> NoUser,
     foundUsed |-> FALSE, memberIdMatches |-> FALSE, phoneMatches |-> FALSE,
     isVerified |-> FALSE, requiresAdminApproval |-> FALSE,
     accountStatus |-> "approved", verificationStatus |-> "verified",
     savedUser |-> NoUser, outcome |-> "none", token |-> FALSE,
     verifyFault |-> FALSE, resetFault |-> FALSE, fault |-> FALSE]

\* what a response carries: the handler, how it ended, whether it holds a token,
\* and the account it is about
NoResp == [kind |-> "none", outcome |-> "none", token |-> FALSE, user |-> NoUser]

NoCall == [fn |-> "none", arg |-> <<>>, result |-> <<>>]

\* scripts/bootstrapAdmin.js
AdminUser ==
    [email |-> "admin@x", memberId |-> <<"A", "0">>, role |-> "admin",
     accountStatus |-> "approved", verificationStatus |-> "verified",
     requiresAdminApproval |-> FALSE, rejectionReason |-> "", reappliedAt |-> FALSE]

Init ==
    /\ users = (AdminId :> AdminUser)
    /\ slots = [s \in SlotIds |-> [isUsed |-> FALSE, usedBy |-> NoUser, usedAt |-> FALSE]]
    /\ familyTree = {}
    /\ nextId = AdminId + 1
    /\ req = [p \in Procs |-> IdleReq]
    /\ resp = NoResp
    /\ call = NoCall

\* ------------------------------------------------------------------------
\* Firestore helpers (config/firestore.js)
\* ------------------------------------------------------------------------

\* the store a handler step reads and writes
World == [users |-> users, slots |-> slots, familyTree |-> familyTree, nextId |-> nextId]

\* getDocumentById(COLLECTIONS.USERS, id) !== null
UserExists(us, id) == id \in DOMAIN us

\* the documents a users query with one equality condition may return first
UsersByMemberId(us, m) == {u \in DOMAIN us : us[u].memberId = m}
UsersByEmail(us, e) == {u \in DOMAIN us : us[u].email = e}

\* findOneDocument: one of the matching documents, or NoUser
FindOneUser(matches) == IF matches = {} THEN {NoUser} ELSE matches

SlotsByField(field, val) == {r.id : r \in {x \in Registry : x[field] = val}}

\* getAuthorizedByMemberId: the documents the four strategies may return,
\* {NoSlot} when none hits
getAuthorizedByMemberId(memberIdValue) ==
    IF memberIdValue = <<>> THEN {NoSlot}
    ELSE IF memberIdValue \in SlotIds THEN {memberIdValue}
    ELSE IF SlotsByField("memberId", StrV(memberIdValue)) # {}
         THEN SlotsByField("memberId", StrV(memberIdValue))
    ELSE IF maybeNumber(memberIdValue) # Null
            /\ SlotsByField("memberId", NumV(maybeNumber(memberIdValue))) # {}
         THEN SlotsByField("memberId", NumV(maybeNumber(memberIdValue)))
    ELSE IF SlotsByField("memberIdNormalized", StrV(memberIdValue)) # {}
         THEN SlotsByField("memberIdNormalized", StrV(memberIdValue))
    ELSE {NoSlot}

\* a phone lookup that first fetches the document whose id is the phone
getAuthorizedByPhoneWithDocId(phoneValue) ==
    IF phoneValue = <<>> THEN {NoSlot}
    ELSE IF phoneValue \in SlotIds THEN {phoneValue}
    ELSE IF SlotsByField("phoneNumber", StrV(phoneValue)) # {}
         THEN SlotsByField("phoneNumber", StrV(phoneValue))
    ELSE IF maybeNumber(phoneValue) # Null
            /\ SlotsByField("phoneNumber", NumV(maybeNumber(phoneValue))) # {}
         THEN SlotsByField("phoneNumber", NumV(maybeNumber(phoneValue)))
    ELSE IF SlotsByField("phoneNormalized", StrV(phoneValue)) # {}
         THEN SlotsByField("phoneNormalized", StrV(phoneValue))
    ELSE {NoSlot}

\* getAuthorizedByPhone: three strategies, no fetch by document id
getAuthorizedByPhone(phoneValue) ==
    IF phoneValue = <<>> THEN {NoSlot}
    ELSE IF SlotsByField("phoneNumber", StrV(phoneValue)) # {}
         THEN SlotsByField("phoneNumber", StrV(phoneValue))
    ELSE IF maybeNumber(phoneValue) # Null
            /\ SlotsByField("phoneNumber", NumV(maybeNumber(phoneValue))) # {}
         THEN SlotsByField("phoneNumber", NumV(maybeNumber(phoneValue)))
    ELSE IF SlotsByField("phoneNormalized", StrV(phoneValue)) # {}
         THEN SlotsByField("phoneNormalized", StrV(phoneValue))
    ELSE {NoSlot}

\* member id first, phone only when the member id found nothing
LookupAuthorized(memberIdValue, phoneValue) ==
    UNION { IF s = NoSlot THEN getAuthorizedByPhone(phoneValue) ELSE {s}
            : s \in getAuthorizedByMemberId(memberIdValue) }

\* the two comparisons of a signup against a registry document
AuthorizedKeys ==
    [s \in SlotIds |->
        [memberId |-> normalizeMemberId(ToStr(IF Truthy(SlotDoc(s).memberId)
                                              THEN SlotDoc(s).memberId ELSE StrV(s))),
         phone |-> normalizePhoneLenient(ToStr(SlotDoc(s).phoneNumber))]]

AuthorizedMemberIdOf(s) == AuthorizedKeys[s].memberId

AuthorizedPhoneOf(s) == AuthorizedKeys[s].phone

MemberIdMatches(s, mid) == AuthorizedMemberIdOf(s) # <<>> /\ mid = AuthorizedMemberIdOf(s)

PhoneMatches(s, ph) == AuthorizedPhoneOf(s) # <<>> /\ ph = AuthorizedPhoneOf(s)

\* a re-apply test that lets any account be superseded
isReapplicableInAnyStatus(status) == status \in {"pending", "rejected", "approved"}

isReapplicable(status) == status \in {"pending", "rejected"}

\* ------------------------------------------------------------------------
\* POST /api/auth/signup on Firestore.  Each storage operation of the handler
\* is one step: from the handler's locals r and the store w, the set of the
\* locals and stores the step may end in (fail: the operation throws).
\* ------------------------------------------------------------------------

Finished(r, out) == [r EXCEPT !.pc = "done", !.outcome = out]

\* a pending decision that leaves the verification status as it was
PendingStillVerified(r) ==
    [r EXCEPT !.requiresAdminApproval = TRUE, !.accountStatus = "pending"]

\* requiresAdminApproval = true; accountStatus = 'pending'; ...
Pending(r) ==
    [r EXCEPT !.requiresAdminApproval = TRUE, !.accountStatus = "pending",
              !.verificationStatus = "pending_admin"]

\* the outer catch: 500
Crashed(r) == [r EXCEPT !.pc = "done", !.outcome = "error500", !.fault = TRUE]

At(r, w) == [r |-> r, w |-> w]

\* the normalized email, member ID and phone of a request body
SignupRequest(e, m, ph) ==
    [email |-> normalizeEmail(e), memberId |-> normalizeMemberId(m),
     phone |-> normalizePhoneProvided(ph)]

\* the requests the handler is given
Requests == {SignupRequest(e, m, ph) : e \in RawEmails, m \in RawMemberIds, ph \in RawPhones}

\* validation, then the users query by member id
StartStep(q, w) ==
    LET r == [IdleReq EXCEPT !.email = q.email, !.memberId = q.memberId, !.phone = q.phone]
    IN  IF q.email = "" \/ q.memberId = <<>> THEN {At(Finished(r, "missing"), w)}
        ELSE {At(Crashed(r), w)} \cup
             { At([r EXCEPT !.pc = "readEmail", !.exId = x,
                            !.exEmail = IF x = NoUser THEN "" ELSE w.users[x].email,
                            !.exStatus = IF x = NoUser THEN "" ELSE w.users[x].accountStatus], w)
               : x \in FindOneUser(UsersByMemberId(w.users, q.memberId)) }

\* re-apply checks that accept a member ID match alone
AfterExistingChecksByMemberIdAlone(r, y, us) ==
    LET reapply1 == IF r.exId # NoUser /\ isReapplicable(r.exStatus) THEN r.exId ELSE NoUser
        phoneN == r.phone
    IN  IF r.exId # NoUser /\ reapply1 = NoUser THEN Finished(r, "dupMemberId")
        ELSE IF y # NoUser /\ reapply1 = NoUser
                /\ ~(us[y].memberId = r.memberId /\ isReapplicable(us[y].accountStatus))
             THEN Finished(r, "dupEmail")
        ELSE IF y # NoUser /\ reapply1 # NoUser /\ y # reapply1
             THEN Finished(r, "conflict")
        ELSE LET r2 == [r EXCEPT !.reapplyUser = IF reapply1 # NoUser THEN reapply1 ELSE y]
             IN  IF phoneN = Null THEN Finished(r2, "invalidPhone")
                 ELSE IF phoneN = <<>> THEN [Pending(r2) EXCEPT !.pc = "writeUser"]
                 ELSE [r2 EXCEPT !.pc = "lookup"]

\* existing-user checks after which a phone that fails normalization is
\* treated like a missing phone
AfterExistingChecksInvalidPhoneToPending(r, y, us) ==
    LET byMember == r.exId # NoUser
        reapply1 == IF byMember /\ r.exEmail = r.email /\ isReapplicable(r.exStatus)
                    THEN r.exId ELSE NoUser
    IN  IF byMember /\ reapply1 = NoUser THEN Finished(r, "dupMemberId")
        ELSE IF y # NoUser /\ reapply1 = NoUser
                /\ ~(us[y].memberId = r.memberId /\ isReapplicable(us[y].accountStatus))
             THEN Finished(r, "dupEmail")
        ELSE IF y # NoUser /\ reapply1 # NoUser /\ y # reapply1
             THEN Finished(r, "conflict")
        ELSE LET r2 == [r EXCEPT !.reapplyUser = IF reapply1 # NoUser THEN reapply1 ELSE y]
             IN  IF r.phone = Null \/ r.phone = <<>> THEN [Pending(r2) EXCEPT !.pc = "writeUser"]
                 ELSE [r2 EXCEPT !.pc = "lookup"]

\* existing-user checks after which the registry is consulted even when no
\* phone was supplied
AfterExistingChecksAlwaysLooksUp(r, y, us) ==
    LET byMember == r.exId # NoUser
        reapply1 == IF byMember /\ r.exEmail = r.email /\ isReapplicable(r.exStatus)
                    THEN r.exId ELSE NoUser
    IN  IF byMember /\ reapply1 = NoUser THEN Finished(r, "dupMemberId")
        ELSE IF y # NoUser /\ reapply1 = NoUser
                /\ ~(us[y].memberId = r.memberId /\ isReapplicable(us[y].accountStatus))
             THEN Finished(r, "dupEmail")
        ELSE IF y # NoUser /\ reapply1 # NoUser /\ y # reapply1
             THEN Finished(r, "conflict")
        ELSE LET r2 == [r EXCEPT !.reapplyUser = IF reapply1 # NoUser THEN reapply1 ELSE y]
             IN  IF r.phone = Null THEN Finished(r2, "invalidPhone")
                 ELSE [r2 EXCEPT !.pc = "lookup"]

\* the duplicate and re-apply checks after both queries, then the phone check
AfterExistingChecks(r, y, us) ==
    LET byMember == r.exId # NoUser
        reapply1 == IF byMember /\ r.exEmail = r.email /\ isReapplicable(r.exStatus)
                    THEN r.exId ELSE NoUser
        phoneN == r.phone
    IN  IF byMember /\ reapply1 = NoUser THEN Finished(r, "dupMemberId")
        ELSE IF y # NoUser /\ reapply1 = NoUser
                /\ ~(us[y].memberId = r.memberId /\ isReapplicable(us[y].accountStatus))
             THEN Finished(r, "dupEmail")
        ELSE IF y # NoUser /\ reapply1 # NoUser /\ y # reapply1
             THEN Finished(r, "conflict")
        ELSE LET r2 == [r EXCEPT !.reapplyUser = IF reapply1 # NoUser THEN reapply1 ELSE y]
             IN  IF phoneN = Null THEN Finished(r2, "invalidPhone")
                 ELSE IF phoneN = <<>> THEN [Pending(r2) EXCEPT !.pc = "writeUser"]
                 ELSE [r2 EXCEPT !.pc = "lookup"]

\* the users query by email
ReadEmailStep(r, w) ==
    {At(Crashed(r), w)} \cup
    { At(AfterExistingChecks(r, y, w.users), w)
      : y \in FindOneUser(UsersByEmail(w.users, r.email)) }

\* a handler that looks into a used slot only when both fields match it
AfterLookupStaleOnExactMatch(r, s, sl) ==
    IF s = NoSlot THEN [Pending(r) EXCEPT !.pc = "writeUser"]
    ELSE LET mm == MemberIdMatches(s, r.memberId)
             pm == PhoneMatches(s, r.phone)
             r2 == [r EXCEPT !.am = s, !.amUsed = sl[s].isUsed, !.amUsedBy = sl[s].usedBy,
                             !.foundUsed = sl[s].isUsed,
                             !.memberIdMatches = mm, !.phoneMatches = pm]
         IN  IF sl[s].isUsed
             THEN IF mm /\ pm
                  THEN [r2 EXCEPT !.pc = IF sl[s].usedBy # NoUser THEN "lockCheck" ELSE "reset"]
                  ELSE [Pending(r2) EXCEPT !.pc = "writeUser"]
             ELSE IF mm /\ pm
                  THEN [r2 EXCEPT !.isVerified = TRUE, !.pc = "writeUser"]
                  ELSE [Pending(r2) EXCEPT !.pc = "writeUser"]

\* what the handler does with the registry document it found
AfterLookup(r, s, sl) ==
    IF s = NoSlot THEN [Pending(r) EXCEPT !.pc = "writeUser"]
    ELSE LET mm == MemberIdMatches(s, r.memberId)
             pm == PhoneMatches(s, r.phone)
             r2 == [r EXCEPT !.am = s, !.amUsed = sl[s].isUsed, !.amUsedBy = sl[s].usedBy,
                             !.foundUsed = sl[s].isUsed,
                             !.memberIdMatches = mm, !.phoneMatches = pm]
         IN  IF sl[s].isUsed
             THEN IF mm \/ pm
                  THEN [r2 EXCEPT !.pc = IF sl[s].usedBy # NoUser THEN "lockCheck" ELSE "reset"]
                  ELSE [Pending(r2) EXCEPT !.pc = "writeUser"]
             ELSE IF mm /\ pm
                  THEN [r2 EXCEPT !.isVerified = TRUE, !.pc = "writeUser"]
                  ELSE [Pending(r2) EXCEPT !.pc = "writeUser"]

\* the verification catch block
VerificationError(r) ==
    [Pending(r) EXCEPT !.pc = "writeUser", !.verifyFault = TRUE, !.fault = TRUE]

\* no handler adds or removes a registry document, so what the lookup finds
\* depends on the member ID and the phone of the request alone
LookupResults ==
    [k \in {<<q.memberId, q.phone>> : q \in Requests} |-> LookupAuthorized(k[1], k[2])]

\* the registry lookup by member id, then by phone
LookupStep(r, w) ==
    {At(VerificationError(r), w)} \cup
    { At(AfterLookup(r, s, w.slots), w)
      : s \in LookupResults[<<r.memberId, r.phone>>] }

\* a live claim treated as a mismatch
LockCheckStepToPending(r, w) ==
    { At(VerificationError(r), w),
      At(IF UserExists(w.users, r.amUsedBy) THEN [Pending(r) EXCEPT !.pc = "writeUser"]
         ELSE [r EXCEPT !.pc = "reset"], w) }

\* getDocumentById(USERS, authorizedMember.usedBy)
LockCheckStep(r, w) ==
    { At(VerificationError(r), w),
      At(IF UserExists(w.users, r.amUsedBy) THEN Finished(r, "blocked")
         ELSE [r EXCEPT !.pc = "reset"], w) }

\* a stale lock that always ends in review
AfterResetToPending(r) == [Pending(r) EXCEPT !.pc = "writeUser"]

\* the match evaluation that follows the stale lock reset
AfterReset(r) ==
    IF r.memberIdMatches /\ r.phoneMatches
    THEN [r EXCEPT !.isVerified = TRUE, !.pc = "writeUser"]
    ELSE [Pending(r) EXCEPT !.pc = "writeUser"]

FreeSlot == [isUsed |-> FALSE, usedBy |-> NoUser, usedAt |-> FALSE]

\* a stale lock reset that leaves usedAt in place
ResetStepKeepsUsedAt(r, w) ==
    { At(AfterReset([r EXCEPT !.resetFault = TRUE, !.fault = TRUE]), w),
      At(AfterReset([r EXCEPT !.amUsed = FALSE, !.amUsedBy = NoUser]),
         [w EXCEPT !.slots[r.am] = [FreeSlot EXCEPT !.usedAt = TRUE]]) }

\* a stale lock reset whose failure sends the signup to review
ResetStepFailureToPending(r, w) ==
    { At([Pending([r EXCEPT !.resetFault = TRUE, !.fault = TRUE]) EXCEPT !.pc = "writeUser"], w),
      At(AfterReset([r EXCEPT !.amUsed = FALSE, !.amUsedBy = NoUser]),
         [w EXCEPT !.slots[r.am] = FreeSlot]) }

\* the stale lock reset; a failed write is logged and the handler goes on
ResetStep(r, w) ==
    { At(AfterReset([r EXCEPT !.resetFault = TRUE, !.fault = TRUE]), w),
      At(AfterReset([r EXCEPT !.amUsed = FALSE, !.amUsedBy = NoUser]),
         [w EXCEPT !.slots[r.am] = FreeSlot]) }

\* userData of the handler, and the fields a re-apply update clears
UserData(r) ==
    [email |-> r.email, memberId |-> r.memberId, role |-> "user",
     accountStatus |-> r.accountStatus,
     verificationStatus |-> r.verificationStatus,
     requiresAdminApproval |-> r.requiresAdminApproval,
     rejectionReason |-> "", reappliedAt |-> FALSE]

\* the response: a token only when no admin approval is required
Respond(r) == [Finished(r, "created") EXCEPT !.token = ~r.requiresAdminApproval]

\* an account write that ignores the re-apply target
WriteUserStepAlwaysCreates(r, w) ==
    LET id == w.nextId
        r2 == [r EXCEPT !.savedUser = id]
        written == [w EXCEPT !.users = @ @@ (id :> UserData(r)), !.nextId = @ + 1,
                             !.familyTree = @ \cup {id}]
    IN  {At(Crashed(r), w)} \cup
        IF w.nextId > MaxUsers THEN {}
        ELSE {At(IF r.isVerified /\ r.am # NoSlot THEN [r2 EXCEPT !.pc = "claim"]
                 ELSE Respond(r2), written)}

\* an account write after which every signup that found a slot claims it
WriteUserStepClaimsWhenFound(r, w) ==
    LET isUpdate == r.reapplyUser # NoUser
        id == IF isUpdate THEN r.reapplyUser ELSE w.nextId
        r2 == [r EXCEPT !.savedUser = id]
        written == [w EXCEPT
                      !.users = IF isUpdate
                                THEN [@ EXCEPT ![id] = [UserData(r) EXCEPT !.reappliedAt = TRUE]]
                                ELSE @ @@ (id :> UserData(r)),
                      !.nextId = IF isUpdate THEN @ ELSE @ + 1,
                      !.familyTree = @ \cup {id}]
    IN  {At(Crashed(r), w)} \cup
        IF (isUpdate /\ ~UserExists(w.users, id)) \/ (~isUpdate /\ w.nextId > MaxUsers)
        THEN {}
        ELSE {At(IF r.am # NoSlot THEN [r2 EXCEPT !.pc = "claim"] ELSE Respond(r2), written)}

\* the account write (update on re-apply, create otherwise), the family tree
\* entry, and the response when there is no slot to claim
WriteUserStep(r, w) ==
    LET isUpdate == r.reapplyUser # NoUser
        id == IF isUpdate THEN r.reapplyUser ELSE w.nextId
        r2 == [r EXCEPT !.savedUser = id]
        written == [w EXCEPT
                      !.users = IF isUpdate
                                THEN [@ EXCEPT ![id] = [UserData(r) EXCEPT !.reappliedAt = TRUE]]
                                ELSE @ @@ (id :> UserData(r)),
                      !.nextId = IF isUpdate THEN @ ELSE @ + 1,
                      !.familyTree = @ \cup {id}]
    IN  {At(Crashed(r), w)} \cup
        IF (isUpdate /\ ~UserExists(w.users, id)) \/ (~isUpdate /\ w.nextId > MaxUsers)
        THEN {}
        ELSE {At(IF r.isVerified /\ r.am # NoSlot THEN [r2 EXCEPT !.pc = "claim"]
                 ELSE Respond(r2), written)}

\* the claim write without the owner
ClaimStepNoOwner(r, w) ==
    { At(Crashed(r), w),
      At(Respond(r),
         [w EXCEPT !.slots[r.am] = [isUsed |-> TRUE, usedBy |-> NoUser, usedAt |-> TRUE]]) }

\* mark the authorized member as used, then the response
ClaimStep(r, w) ==
    { At(Crashed(r), w),
      At(Respond(r),
         [w EXCEPT !.slots[r.am] = [isUsed |-> TRUE, usedBy |-> r.savedUser, usedAt |-> TRUE]]) }

\* the next storage operation of a handler in flight
Step(r, w) ==
    CASE r.pc = "readEmail" -> ReadEmailStep(r, w)
      [] r.pc = "lookup" -> LookupStep(r, w)
      [] r.pc = "lockCheck" -> LockCheckStep(r, w)
      [] r.pc = "reset" -> ResetStep(r, w)
      [] r.pc = "writeUser" -> WriteUserStep(r, w)
      [] r.pc = "claim" -> ClaimStep(r, w)

\* a handler run from some of its states to its response, nothing interleaved
RECURSIVE RunToEnd(_)
RunToEnd(S) == UNION {IF x.r.pc = "done" THEN {x} ELSE RunToEnd(Step(x.r, x.w)) : x \in S}

\* the response of a signup handler that ended with locals r
Response(r) == [kind |-> "signup", outcome |-> r.outcome, token |-> r.token, user |-> r.savedUser]

SetWorld(w) ==
    /\ users' = w.users
    /\ slots' = w.slots
    /\ familyTree' = w.familyTree
    /\ nextId' = w.nextId

\* the ways the handler may serve a request in the current store
SignupRuns(q) == RunToEnd(StartStep(q, World))

\* what the runs of the handler leave behind: the store and the response
SignupOutcomes(q) == {[w |-> x.w, resp |-> Response(x.r)] : x \in SignupRuns(q)}

\* the whole signup handler, served for some request without another request
\* in between
Signup ==
    \E o \in UNION {SignupOutcomes(q) : q \in Requests} :
        /\ SetWorld(o.w)
        /\ resp' = o.resp
        /\ UNCHANGED <<req, call>>

\* ------------------------------------------------------------------------
\* POST /api/auth/login
\* ------------------------------------------------------------------------

LoginResponse(u) == [kind |-> "login", outcome |-> "loggedIn", token |-> TRUE, user |-> u]

Login(e) ==
    /\ \E u \in UsersByEmail(users, normalizeEmail(e)) :
          /\ users[u].accountStatus \notin {"rejected", "pending"}
          /\ resp' = LoginResponse(u)
    /\ UNCHANGED <<users, slots, familyTree, nextId, req, call>>

\* ------------------------------------------------------------------------
\* Admin routes (routes/admin.js), behind protect and authorize('admin')
\* ------------------------------------------------------------------------

\* middleware/auth.js: the token of an existing account that is neither
\* rejected nor pending, with role admin
IsAdmin(a) ==
    /\ UserExists(users, a)
    /\ users[a].accountStatus \notin {"rejected", "pending"}
    /\ users[a].role = "admin"

\* res.json({ success: true, message: 'User approved', data })
ApprovalResponse(id) == [kind |-> "approve", outcome |-> "approved", token |-> FALSE, user |-> id]

\* PUT /users/:id/approve
AdminApprove(a, id) ==
    /\ IsAdmin(a)
    /\ UserExists(users, id)
    /\ users' = [users EXCEPT ![id].accountStatus = "approved",
                              ![id].requiresAdminApproval = FALSE,
                              ![id].verificationStatus = "verified"]
    /\ resp' = ApprovalResponse(id)
    /\ UNCHANGED <<slots, familyTree, nextId, req, call>>

\* PUT /users/:id/reject
AdminReject(a, id, reason) ==
    /\ IsAdmin(a)
    /\ UserExists(users, id)
    /\ users' = [users EXCEPT ![id].accountStatus = "rejected",
                              ![id].requiresAdminApproval = FALSE,
                              ![id].verificationStatus = "unverified",
                              ![id].rejectionReason = reason]
    /\ resp' = NoResp
    /\ UNCHANGED <<slots, familyTree, nextId, req, call>>

\* an approval that also claims the slot of the account's member ID
PendingApproveClaimsSlot(a, id) ==
    /\ IsAdmin(a)
    /\ UserExists(users, id)
    /\ users[id].accountStatus = "pending"
    /\ users' = [users EXCEPT ![id].accountStatus = "approved",
                              ![id].verificationStatus = "verified",
                              ![id].requiresAdminApproval = FALSE]
    /\ slots' = [s \in SlotIds |->
                    IF MemberIdMatches(s, users[id].memberId) /\ ~slots[s].isUsed
                    THEN [isUsed |-> TRUE, usedBy |-> id, usedAt |-> TRUE] ELSE slots[s]]
    /\ resp' = ApprovalResponse(id)
    /\ UNCHANGED <<familyTree, nextId, req, call>>

\* POST /pending-users/:id/approve
PendingApprove(a, id) ==
    /\ IsAdmin(a)
    /\ UserExists(users, id)
    /\ users[id].accountStatus = "pending"
    /\ users' = [users EXCEPT ![id].accountStatus = "approved",
                              ![id].verificationStatus = "verified",
                              ![id].requiresAdminApproval = FALSE]
    /\ resp' = ApprovalResponse(id)
    /\ UNCHANGED <<slots, familyTree, nextId, req, call>>

\* POST /pending-users/:id/reject
PendingReject(a, id, reason) ==
    /\ IsAdmin(a)
    /\ UserExists(users, id)
    /\ users[id].accountStatus = "pending"
    /\ users' = [users EXCEPT ![id].accountStatus = "rejected",
                              ![id].verificationStatus = "unverified",
                              ![id].requiresAdminApproval = FALSE,
                              ![id].rejectionReason =
                                  IF reason = "" THEN "No reason provided" ELSE reason]
    /\ resp' = NoResp
    /\ UNCHANGED <<slots, familyTree, nextId, req, call>>

\* request bodies of PUT /users/:id; Undef and "" mark a field that is not sent
Undef == <<"undefined">>
UpdateBodies ==
    { [email |-> "", memberId |-> M1, role |-> ""],
      [email |-> "b@x", memberId |-> Undef, role |-> ""],
      [email |-> "", memberId |-> Undef, role |-> "user"] }

\* PUT /users/:id
AdminUpdateUser(a, id, body) ==
    /\ IsAdmin(a)
    /\ UserExists(users, id)
    /\ ~(body.memberId # Undef /\ body.memberId # <<>> /\ body.memberId # users[id].memberId
         /\ UsersByMemberId(users, body.memberId) \ {id} # {})
    /\ ~(body.email # "" /\ normalizeEmail(body.email) # users[id].email
         /\ UsersByEmail(users, normalizeEmail(body.email)) \ {id} # {})
    /\ users' = [users EXCEPT
                   ![id].email = IF body.email # "" THEN normalizeEmail(body.email) ELSE @,
                   ![id].memberId = IF body.memberId # Undef THEN body.memberId ELSE @,
                   ![id].role = IF body.role # "" THEN body.role ELSE @]
    /\ resp' = NoResp
    /\ UNCHANGED <<slots, familyTree, nextId, req, call>>

\* DELETE /users/:id
AdminDeleteUser(a, id, deleteFamilyTree) ==
    /\ IsAdmin(a)
    /\ UserExists(users, id)
    /\ id # a
    /\ users' = [u \in DOMAIN users \ {id} |-> users[u]]
    /\ familyTree' = IF deleteFamilyTree THEN familyTree \ {id} ELSE familyTree
    /\ resp' = NoResp
    /\ UNCHANGED <<slots, nextId, req, call>>

Roles == {"user", "admin"}

\* PUT /users/:id/role
AdminSetRole(a, id, role) ==
    /\ IsAdmin(a)
    /\ UserExists(users, id)
    /\ ~(id = a /\ role = "user")
    /\ users' = [users EXCEPT ![id].role = role]
    /\ resp' = NoResp
    /\ UNCHANGED <<slots, familyTree, nextId, req, call>>

\* ------------------------------------------------------------------------
\* Specifications
\* ------------------------------------------------------------------------

OtherRequest ==
    \/ \E e \in RawEmails \cup {"admin@x"} : Login(e)
    \/ \E a \in DOMAIN users : \E id \in DOMAIN users \ {a} : AdminApprove(a, id)
    \/ \E a \in DOMAIN users : \E id \in DOMAIN users \ {a} : \E reason \in Reasons :
          AdminReject(a, id, reason)
    \/ \E a \in DOMAIN users : \E id \in DOMAIN users \ {a} : PendingApprove(a, id)
    \/ \E a \in DOMAIN users : \E id \in DOMAIN users \ {a} : \E reason \in Reasons :
          PendingReject(a, id, reason)
    \/ \E a \in DOMAIN users, id \in DOMAIN users, body \in UpdateBodies :
          AdminUpdateUser(a, id, body)
    \/ \E a \in DOMAIN users, id \in DOMAIN users, dft \in BOOLEAN : AdminDeleteUser(a, id, dft)

\* requests are served one at a time
Next ==
    \/ Signup
    \/ OtherRequest

Spec == Init /\ [][Next]_vars

\* the routes that manage accounts and roles, with the signups that create
\* the accounts
NextAdmin ==
    \/ Signup
    \/ \E a \in DOMAIN users, id \in DOMAIN users, role \in Roles : AdminSetRole(a, id, role)
    \/ \E a \in DOMAIN users, id \in DOMAIN users, body \in UpdateBodies :
          AdminUpdateUser(a, id, body)
    \/ \E a \in DOMAIN users, id \in DOMAIN users, dft \in BOOLEAN : AdminDeleteUser(a, id, dft)

SpecAdmin == Init /\ [][NextAdmin]_vars

\* ------------------------------------------------------------------------
\* Two signup handlers in flight: each storage operation is a step of its own
\* and the steps of the two handlers interleave
\* ------------------------------------------------------------------------

\* handler p moves to locals and store x, responding when it has ended
Install(p, x) ==
    /\ SetWorld(x.w)
    /\ IF x.r.pc = "done"
       THEN req' = [req EXCEPT ![p] = IdleReq] /\ resp' = Response(x.r)
       ELSE req' = [req EXCEPT ![p] = x.r] /\ resp' = NoResp
    /\ UNCHANGED call

SignupStart(p, q) ==
    /\ req[p].pc = "idle"
    /\ \E x \in StartStep(q, World) : Install(p, x)

SignupReadEmail(p) ==
    /\ req[p].pc = "readEmail"
    /\ \E x \in ReadEmailStep(req[p], World) : Install(p, x)

SignupLookup(p) ==
    /\ req[p].pc = "lookup"
    /\ \E x \in LookupStep(req[p], World) : Install(p, x)

SignupLockCheck(p) ==
    /\ req[p].pc = "lockCheck"
    /\ \E x \in LockCheckStep(req[p], World) : Install(p, x)

SignupReset(p) ==
    /\ req[p].pc = "reset"
    /\ \E x \in ResetStep(req[p], World) : Install(p, x)

SignupWriteUser(p) ==
    /\ req[p].pc = "writeUser"
    /\ \E x \in WriteUserStep(req[p], World) : Install(p, x)

SignupClaim(p) ==
    /\ req[p].pc = "claim"
    /\ \E x \in ClaimStep(req[p], World) : Install(p, x)

\* the requests the two handlers serve
ConcRequests ==
    {SignupRequest(e, M1, ph) : e \in RawEmails, ph \in {<<"+", "9", "1", " ">> \o P1, <<>>}}

NextConc ==
    \/ \E p \in Procs, q \in ConcRequests : SignupStart(p, q)
    \/ \E p \in Procs : SignupReadEmail(p)
    \/ \E p \in Procs : SignupLookup(p)
    \/ \E p \in Procs : SignupLockCheck(p)
    \/ \E p \in Procs : SignupReset(p)
    \/ \E p \in Procs : SignupWriteUser(p)
    \/ \E p \in Procs : SignupClaim(p)
    \/ \E a \in DOMAIN users, id \in DOMAIN users : AdminDeleteUser(a, id, TRUE)

SpecConc == Init /\ [][NextConc]_vars

\* ------------------------------------------------------------------------
\* The MongoDB deployment of the same API (routes/auth.js on the Mongoose models)
\* ------------------------------------------------------------------------

\* process.env.ADMIN_EMAILS
AdminEmails == {"b@x"}

\* the phones its requests carry
MongoPhones == {SubSeq(P1, 1, 5) \o <<"-">> \o SubSeq(P1, 6, 10), P2, <<>>}

\* String(memberId ?? '').trim()
MongoMemberId(m) == Trim(m)

IsPhonePunct(c) == c \in {" ", "-", "(", ")"}

\* String(phone ?? '').replace(/[\s\-\(\)]/g, '').trim()
MongoPhone(ph) == Trim(SelectSeq(ph, LAMBDA c : ~IsPhonePunct(c)))

\* AuthorizedMember.findOne by memberId, then by phoneNumber when that found none
MongoFindAuthorized(mid, ph) ==
    LET byMemberId == {s \in SlotIds : ToStr(SlotDoc(s).memberId) = mid}
        byPhone == {s \in SlotIds : ToStr(SlotDoc(s).phoneNumber) = ph}
    IN  IF mid # <<>> /\ byMemberId # {} THEN byMemberId
        ELSE IF ph # <<>> /\ byPhone # {} THEN byPhone
        ELSE {NoSlot}

\* the matchCount evaluation
MongoDecision(r, s) ==
    IF s = NoSlot THEN Pending(r)
    ELSE LET authorizedPhone == MongoPhone(ToStr(SlotDoc(s).phoneNumber))
             authorizedMemberId == ToStr(SlotDoc(s).memberId)
             mm == authorizedMemberId # <<>> /\ r.memberId = authorizedMemberId
             pm == authorizedPhone # <<>> /\ MongoPhone(r.phone) = authorizedPhone
             matchCount == (IF mm THEN 1 ELSE 0) + (IF pm THEN 1 ELSE 0)
             r2 == [r EXCEPT !.am = s, !.memberIdMatches = mm, !.phoneMatches = pm]
         IN  IF matchCount = 2 THEN [r2 EXCEPT !.isVerified = TRUE]
             ELSE IF matchCount = 1
                     /\ \/ authorizedMemberId # <<>> /\ authorizedPhone = <<>>
                        \/ authorizedMemberId = <<>> /\ authorizedPhone # <<>>
                  THEN [r2 EXCEPT !.isVerified = TRUE]
             ELSE Pending(r2)

\* the document User.create stores: the fields the handler passes, and the
\* schema defaults of models/User.js for the others
MongoUser(r) ==
    [email |-> r.email, memberId |-> r.memberId,
     role |-> IF r.email \in AdminEmails THEN "admin" ELSE "user",
     accountStatus |-> "approved", verificationStatus |-> "verified",
     requiresAdminApproval |-> FALSE, rejectionReason |-> "", reappliedAt |-> FALSE]

\* authorizedMember.markAsUsed(user._id)
markAsUsed(sl, s, userId) ==
    [sl EXCEPT ![s] = [isUsed |-> TRUE, usedBy |-> userId, usedAt |-> TRUE]]

\* the whole Mongo signup handler: the locals and stores it may end in
MongoSignupRun(e, m, ph, w) ==
    LET r0 == [IdleReq EXCEPT !.email = normalizeEmail(e), !.memberId = MongoMemberId(m),
                              !.phone = ph]
        decided == {[Pending(r0) EXCEPT !.verifyFault = TRUE, !.fault = TRUE]} \cup
                   {MongoDecision(r0, s) : s \in MongoFindAuthorized(r0.memberId, MongoPhone(ph))}
        id == w.nextId
        created == [w EXCEPT !.users = @ @@ (id :> MongoUser(r0)), !.nextId = @ + 1]
        marked(r) == IF r.isVerified /\ r.am # NoSlot
                     THEN {created, [created EXCEPT !.slots = markAsUsed(@, r.am, id)]}
                     ELSE {created}
        answered(r, w2) ==
            IF r.requiresAdminApproval
            THEN At([Finished(r, "created") EXCEPT !.savedUser = id], w2)
            ELSE At([Finished(r, "created") EXCEPT !.savedUser = id, !.token = TRUE],
                    [w2 EXCEPT !.familyTree = @ \cup {id}])
    IN  IF r0.email = "" \/ r0.memberId = <<>> THEN {At(Finished(r0, "missing"), w)}
        ELSE IF UsersByMemberId(w.users, r0.memberId) # {} THEN {At(Finished(r0, "dupMemberId"), w)}
        ELSE IF UsersByEmail(w.users, r0.email) # {} THEN {At(Finished(r0, "dupEmail"), w)}
        ELSE {At(Crashed(r0), w)} \cup
             IF w.nextId > MaxUsers THEN {}
             ELSE UNION {{answered(r, w2) : w2 \in marked(r)} : r \in decided}

MongoSignup(e, m, ph) ==
    \E x \in MongoSignupRun(e, m, ph, World) :
        /\ SetWorld(x.w)
        /\ resp' = Response(x.r)
        /\ UNCHANGED <<req, call>>

\* POST /api/auth/login of routes/auth.js
MongoLogin(e) ==
    /\ \E u \in UsersByEmail(users, normalizeEmail(e)) :
          /\ users[u].accountStatus # "pending"
          /\ users[u].accountStatus # "rejected"
          /\ resp' = LoginResponse(u)
    /\ UNCHANGED <<users, slots, familyTree, nextId, req, call>>

NextMongo ==
    \/ \E e \in RawEmails, m \in RawMemberIds, ph \in MongoPhones : MongoSignup(e, m, ph)
    \/ \E e \in RawEmails : MongoLogin(e)

SpecMongo == Init /\ [][NextMongo]_vars

\* ------------------------------------------------------------------------
\* The normalizers called on their own, on phone values of every shape
\* ------------------------------------------------------------------------

PhonePrefixes ==
    {<<>>, <<"0">>, <<"9", "1">>, <<"+", "9", "1", " ">>, <<"0", "0">>, <<"1">>}

PhoneBodies ==
    {P1, P2, SubSeq(P1, 1, 9), <<"1", "2", "3">>, P1 \o <<"1", "2", "3", "4">>,
     <<"a", "b">>, <<>>}

PhoneSuffixes == {<<>>, <<".", "0">>, <<"e", "1">>, <<" ">>}

\* the values handed to the normalizers; numeric literals stay below 2^53
PhoneInputs ==
    {x \in {pre \o body \o suf :
                pre \in PhonePrefixes, body \in PhoneBodies, suf \in PhoneSuffixes} :
        HasChar(x, {"e", "E", "."}) => Len(StripNonDigits(x)) <= 15}

CallNormalizePhoneProvided(value) ==
    /\ call' = [fn |-> "normalizePhoneProvided", arg |-> value,
                result |-> normalizePhoneProvided(value)]
    /\ UNCHANGED <<users, slots, familyTree, nextId, req, resp>>

\* normalizePhoneProvided(normalizePhoneProvided(x)): the value the last call
\* returned is normalized again
CallNormalizePhoneProvidedAgain ==
    /\ call.fn = "normalizePhoneProvided"
    /\ call.result # Null
    /\ CallNormalizePhoneProvided(call.result)

CallNormalizePhoneLenient(value) ==
    /\ call' = [fn |-> "normalizePhoneLenient", arg |-> value,
                result |-> normalizePhoneLenient(value)]
    /\ UNCHANGED <<users, slots, familyTree, nextId, req, resp>>

NextNormalizers ==
    \/ \E value \in PhoneInputs : CallNormalizePhoneProvided(value)
    \/ CallNormalizePhoneProvidedAgain
    \/ \E value \in PhoneInputs : CallNormalizePhoneLenient(value)

SpecNormalizers == Init /\ [][NextNormalizers]_vars

\* ------------------------------------------------------------------------
\* The registry lookups called on their own
\* ------------------------------------------------------------------------

\* member IDs and phones to look up: document ids, stored values in other
\* spellings, and values the registry does not hold
LookupValues ==
    {<<>>, M1, K2, <<"m", "1">>, <<"7">>, P1, P2, <<"0">> \o P2, SubSeq(P1, 1, 9),
     <<"0", "0", "7">>}

CallGetAuthorizedByMemberId(memberIdValue) ==
    /\ call' = [fn |-> "getAuthorizedByMemberId", arg |-> memberIdValue,
                result |-> getAuthorizedByMemberId(memberIdValue)]
    /\ UNCHANGED <<users, slots, familyTree, nextId, req, resp>>

CallGetAuthorizedByPhone(phoneValue) ==
    /\ call' = [fn |-> "getAuthorizedByPhone", arg |-> phoneValue,
                result |-> getAuthorizedByPhone(phoneValue)]
    /\ UNCHANGED <<users, slots, familyTree, nextId, req, resp>>

\* the two lookups as the signup handler chains them
CallLookupAuthorized(memberIdValue, phoneValue) ==
    /\ call' = [fn |-> "LookupAuthorized", arg |-> <<memberIdValue, phoneValue>>,
                result |-> LookupAuthorized(memberIdValue, phoneValue)]
    /\ UNCHANGED <<users, slots, familyTree, nextId, req, resp>>

NextLookup ==
    \/ \E v \in LookupValues : CallGetAuthorizedByMemberId(v)
    \/ \E v \in LookupValues : CallGetAuthorizedByPhone(v)
    \/ \E m \in LookupValues, ph \in LookupValues : CallLookupAuthorized(m, ph)

SpecLookup == Init /\ [][NextLookup]_vars

\* ------------------------------------------------------------------------
\* Properties
\* ------------------------------------------------------------------------

\* C3: in every reachable state, a signup whose normalized member ID and
\* strictly normalized phone both equal those of a slot with isUsed = false,
\* and whose email and member ID no account carries, ends (when no storage
\* operation fails) with a new account of status approved / verified and with
\* that slot marked used by the new account.
C3_ExactMatchApproved ==
    \A s \in SlotIds : ~slots[s].isUsed => \A q \in Requests :
        ( /\ MemberIdMatches(s, q.memberId)
          /\ PhoneMatches(s, q.phone)
          /\ UsersByEmail(users, q.email) = {}
          /\ UsersByMemberId(users, q.memberId) = {} )
        => \A x \in SignupRuns(q) :
              ~x.r.fault =>
                 /\ x.r.outcome = "created"
                 /\ x.r.savedUser \notin DOMAIN users
                 /\ x.w.users[x.r.savedUser].accountStatus = "approved"
                 /\ x.w.users[x.r.savedUser].verificationStatus = "verified"
                 /\ x.w.slots[s].isUsed
                 /\ x.w.slots[s].usedBy = x.r.savedUser

\* a signup has just been answered with a token, its account holds the slot,
\* and no account was ever deleted, so the slot was unused when it was found
C3_Witness ==
    /\ resp.kind = "signup" /\ resp.outcome = "created" /\ resp.token
    /\ DOMAIN users = 1..(nextId - 1)
    /\ users[resp.user].accountStatus = "approved"
    /\ \E s \in SlotIds : slots[s].isUsed /\ slots[s].usedBy = resp.user

\* C5: in every reachable state, a signup whose member ID or phone matches a
\* slot marked used whose usedBy account exists, and that finds that slot, is
\* refused with an error; it changes no account and no slot, and creates no
\* pending account (when no storage operation fails).
C5_LiveClaimBlocks ==
    \A s \in SlotIds : (slots[s].isUsed /\ slots[s].usedBy \in DOMAIN users) =>
      \A q \in Requests :
        (MemberIdMatches(s, q.memberId) \/ PhoneMatches(s, q.phone))
        => \A x \in SignupRuns(q) :
              (x.r.am = s /\ ~x.r.fault)
              => /\ x.r.outcome = "blocked"
                 /\ x.r.savedUser = NoUser
                 /\ x.w.users = users
                 /\ x.w.slots = slots

\* a signup has just been refused because of a live claim
C5_Witness ==
    /\ resp.kind = "signup" /\ resp.outcome = "blocked"
    /\ \E s \in SlotIds : slots[s].isUsed /\ slots[s].usedBy \in DOMAIN users

\* the step from the current store to the response of run x
Served(x) == SetWorld(x.w) /\ resp' = Response(x.r)

\* C4 as stated: whenever a slot is marked used by an account that no longer
\* exists, a signup with an unused email whose member ID and phone exactly
\* match the slot ends (when no storage operation fails) auto-approved with
\* the slot claimed by its new account.
C4_StaleSlotReclaimedByAnyNewEmail ==
    [][\A q \in Requests : \A s \in SlotIds :
         ( /\ slots[s].isUsed
           /\ slots[s].usedBy \notin DOMAIN users
           /\ MemberIdMatches(s, q.memberId)
           /\ PhoneMatches(s, q.phone)
           /\ UsersByEmail(users, q.email) = {} )
         => \A x \in SignupRuns(q) :
               (~x.r.fault /\ Served(x)) =>
                  /\ x.r.outcome = "created"
                  /\ x.w.users[x.r.savedUser].accountStatus = "approved"
                  /\ x.w.slots[s].isUsed
                  /\ x.w.slots[s].usedBy = x.r.savedUser]_vars

\* C4, amended: whenever a slot is marked used by an account that no longer
\* exists, a signup whose email and member ID no account carries and whose
\* member ID and phone exactly match the slot ends (when no storage operation
\* fails) with a new approved, verified account and the slot claimed by it.
C4_StaleSlotReclaimed ==
    \A s \in SlotIds : (slots[s].isUsed /\ slots[s].usedBy \notin DOMAIN users) =>
      \A q \in Requests :
        ( /\ MemberIdMatches(s, q.memberId)
          /\ PhoneMatches(s, q.phone)
          /\ UsersByEmail(users, q.email) = {}
          /\ UsersByMemberId(users, q.memberId) = {} )
        => \A x \in SignupRuns(q) :
              ~x.r.fault =>
                 /\ x.r.outcome = "created"
                 /\ x.r.savedUser \notin DOMAIN users
                 /\ x.w.users[x.r.savedUser].accountStatus = "approved"
                 /\ x.w.users[x.r.savedUser].verificationStatus = "verified"
                 /\ x.w.slots[s] = [isUsed |-> TRUE, usedBy |-> x.r.savedUser, usedAt |-> TRUE]

\* a slot is held by a deleted account and a signup served now ends with the
\* slot claimed by its new, approved account
C4_Witness ==
    \E s \in SlotIds :
        /\ slots[s].isUsed
        /\ slots[s].usedBy \notin DOMAIN users
        /\ \E q \in Requests :
              \E x \in SignupRuns(q) :
                  /\ x.r.outcome = "created"
                  /\ x.r.foundUsed
                  /\ x.w.users[x.r.savedUser].accountStatus = "approved"
                  /\ x.w.slots[s].usedBy = x.r.savedUser

\* the accounts a re-application may supersede
Reapplicable == {u \in DOMAIN users : isReapplicable(users[u].accountStatus)}

\* C9: in every reachable state, a signup with the member ID and the email of
\* an account in status rejected or pending creates no account record; when
\* it is accepted, that same record carries the freshly computed decision
\* (pending or approved), an empty rejectionReason and a reappliedAt.
C9_ReapplyUpdatesInPlace ==
    \A u \in Reapplicable : \A q \in Requests :
        (q.email = users[u].email /\ q.memberId = users[u].memberId)
        => \A x \in SignupRuns(q) :
              /\ DOMAIN x.w.users = DOMAIN users
              /\ \A v \in DOMAIN users \ {u} : x.w.users[v] = users[v]
              /\ x.r.outcome = "created" =>
                    /\ x.r.savedUser = u
                    /\ x.w.users[u].accountStatus = x.r.accountStatus
                    /\ x.w.users[u].accountStatus = IF x.r.isVerified THEN "approved" ELSE "pending"
                    /\ x.w.users[u].rejectionReason = ""
                    /\ x.w.users[u].reappliedAt

\* a rejected account, with a rejection reason on record, whose re-application
\* served now is accepted
C9_Witness ==
    \E u \in DOMAIN users :
        /\ users[u].accountStatus = "rejected"
        /\ users[u].rejectionReason # ""
        /\ \E q \in Requests :
              \E x \in SignupRuns(q) :
                  x.r.outcome = "created" /\ x.r.savedUser = u /\ x.r.isVerified

\* C10 as stated: a complete signup (member ID present, phone not invalid)
\* with the email or the member ID of an account in status pending or rejected
\* returns no error and updates that account in place (when no storage
\* operation fails).
C10_ReapplyByEitherField ==
    [][\A u \in Reapplicable : \A q \in Requests :
         ( /\ q.memberId # <<>>
           /\ q.phone # Null
           /\ (q.email = users[u].email \/ q.memberId = users[u].memberId) )
         => \A x \in SignupRuns(q) :
               (~x.r.fault /\ Served(x)) =>
                  /\ x.r.outcome = "created"
                  /\ x.r.savedUser = u]_vars

\* C10, amended: a signup with the email and the member ID of an account in
\* status pending or rejected is never refused as a duplicate and, when it is
\* accepted, updates that account in place; a signup with only one of the two
\* is refused and changes nothing.
C10_ReapplyNeedsBothFields ==
    \A u \in Reapplicable : \A q \in Requests :
        LET sameEmail == q.email = users[u].email
            sameMemberId == q.memberId = users[u].memberId
        IN  (sameEmail \/ sameMemberId) =>
               \A x \in SignupRuns(q) :
                  /\ (sameEmail /\ sameMemberId) =>
                        /\ x.r.outcome \notin {"dupMemberId", "dupEmail", "conflict"}
                        /\ x.r.outcome = "created" => x.r.savedUser = u
                  /\ (sameEmail # sameMemberId) =>
                        /\ x.r.outcome # "created"
                        /\ x.w = World

\* a signup with the member ID of a pending account and another email has
\* just been refused
C10_Witness ==
    /\ resp.kind = "signup" /\ resp.outcome = "dupMemberId"
    /\ \E u \in Reapplicable : \E e \in RawEmails :
          /\ users[u].email # normalizeEmail(e)
          /\ UsersByEmail(users, normalizeEmail(e)) = {}

\* the accounts whose member ID is the one of slot s
HoldersOf(s) == {u \in DOMAIN users : MemberIdMatches(s, users[u].memberId)}

\* C1: of the signups that exactly match the same slot, at most one ends
\* with an approved account: no two approved accounts carry the slot's
\* member ID.
C1_OneApprovedAccountPerSlot ==
    \A s \in SlotIds : \A u1, u2 \in HoldersOf(s) :
        (users[u1].accountStatus = "approved" /\ users[u2].accountStatus = "approved")
        => u1 = u2

\* C8: no two account records carry the same member ID.
C8_MemberIdUnique ==
    \A u1, u2 \in DOMAIN users : users[u1].memberId = users[u2].memberId => u1 = u2

\* a slot whose member ID and present phone both equal the signup's
BothFieldsMatch(m, ph) ==
    \E s \in SlotIds : /\ MemberIdMatches(s, normalizeMemberId(m))
                       /\ PhoneMatches(s, normalizePhoneLenient(ph))

\* the step from the current store to the response of run x of the Mongo handler
MongoRuns(e, m, ph) == MongoSignupRun(e, m, ph, World)

\* C2: a signup is answered as approved, without admin approval, only if some
\* slot's member ID equals the signup's member ID and its phone is present and
\* equals the signup's phone; one matching field never suffices.
C2_ApprovedOnlyOnBothFields ==
    [][\A e \in RawEmails, m \in RawMemberIds, ph \in MongoPhones :
         \A x \in MongoRuns(e, m, ph) :
            ( /\ Served(x)
              /\ x.r.outcome = "created"
              /\ ~x.r.requiresAdminApproval
              /\ x.w.users[x.r.savedUser].accountStatus = "approved" )
            => BothFieldsMatch(m, ph)]_vars

\* C6: a signup whose verification step hit a storage failure ends with an
\* account of status pending, never approved, and marks no slot used.
C6_VerificationFailureEndsPending ==
    [][\A e \in RawEmails, m \in RawMemberIds, ph \in MongoPhones :
         \A x \in MongoRuns(e, m, ph) :
            (Served(x) /\ x.r.verifyFault /\ x.r.outcome = "created")
            => /\ x.w.users[x.r.savedUser].accountStatus = "pending"
               /\ x.w.slots = slots]_vars

\* C7: a response carries a token only for an approved account, and the
\* account of a signup that was just answered as requiring admin approval is
\* not issued a token by a login that follows at once, before any admin acts.
C7_TokenOnlyAfterApproval ==
    /\ [](resp.token => users[resp.user].accountStatus = "approved")
    /\ [][(resp.kind = "signup" /\ resp.outcome = "created" /\ ~resp.token
           /\ resp'.kind = "login")
          => resp'.user # resp.user]_vars

\* the answers that refuse a signup as a duplicate
DuplicateErrors == {"dupMemberId", "dupEmail", "conflict"}

\* C11: in every reachable state, a signup that passes validation and whose
\* email or member ID is the one of an account in status approved changes no
\* account and no slot, and, unless a users query fails, is refused with a
\* duplicate error.
C11_ApprovedDuplicateRefused ==
    \A q \in Requests :
        ( /\ q.email # "" /\ q.memberId # <<>>
          /\ \E u \in DOMAIN users :
                /\ users[u].accountStatus = "approved"
                /\ (q.email = users[u].email \/ q.memberId = users[u].memberId) )
        => \A x \in SignupRuns(q) :
              /\ x.w = World
              /\ ~x.r.fault => x.r.outcome \in DuplicateErrors

\* an approved account that signed up itself, and two signups served now, one
\* with its email and another member ID, one with its member ID and another
\* email, both refused as duplicates
C11_Witness ==
    \E u \in DOMAIN users \ {AdminId} :
        /\ users[u].accountStatus = "approved"
        /\ \E q \in Requests : \E x \in SignupRuns(q) :
              /\ q.email = users[u].email /\ q.memberId # users[u].memberId
              /\ x.r.outcome = "dupEmail"
        /\ \E q \in Requests : \E x \in SignupRuns(q) :
              /\ q.email # users[u].email /\ q.memberId = users[u].memberId
              /\ x.r.outcome = "dupMemberId"

\* C12: in every reachable state, the account a slot's usedBy names, when it
\* exists, is in status approved, never pending or rejected.
C12_ClaimsHeldByApproved ==
    \A s \in SlotIds :
        (slots[s].isUsed /\ slots[s].usedBy \in DOMAIN users)
        => users[slots[s].usedBy].accountStatus = "approved"

\* C13: no step changes the status of an account that is approved, and a
\* step of an admin route changes the status of an account only when that
\* account is pending (a re-application is the signup route's step).
C13_ApprovedIsTerminal ==
    [][\A u \in DOMAIN users \cap DOMAIN users' :
          users'[u].accountStatus # users[u].accountStatus
          => /\ users[u].accountStatus # "approved"
             /\ resp'.kind # "signup" => users[u].accountStatus = "pending"]_vars

\* the step is an admin approval of a pending account whose member ID is the
\* one of slot s, and s is not claimed
ApprovesUnclaimed(s) ==
    /\ resp'.kind = "approve"
    /\ resp'.user \in DOMAIN users
    /\ users[resp'.user].accountStatus = "pending"
    /\ MemberIdMatches(s, users[resp'.user].memberId)
    /\ ~slots[s].isUsed

\* C14 as stated: an admin approval of a pending account whose member ID is
\* the one of an unclaimed slot leaves that slot marked used by the account.
C14_ApprovalClaimsSlot ==
    [][\A s \in SlotIds :
          ApprovesUnclaimed(s) => slots'[s].isUsed /\ slots'[s].usedBy = resp'.user]_vars

\* C14, amended: an admin approval of a pending account whose member ID is
\* the one of an unclaimed slot sets the account to approved and verified and
\* changes no slot: the slot stays unclaimed.
C14_ApprovalLeavesSlots ==
    [][\A s \in SlotIds :
          ApprovesUnclaimed(s)
          => /\ users'[resp'.user].accountStatus = "approved"
             /\ users'[resp'.user].verificationStatus = "verified"
             /\ slots' = slots
             /\ ~slots'[s].isUsed]_vars

\* an approval has just been answered for an account whose member ID is the
\* one of a slot that is still unclaimed
C14_Witness ==
    /\ resp.kind = "approve"
    /\ resp.user \in DOMAIN users
    /\ users[resp.user].accountStatus = "approved"
    /\ \E s \in SlotIds : MemberIdMatches(s, users[resp.user].memberId) /\ ~slots[s].isUsed

\* C15: in every reachable state, a signup that fails with a storage error
\* before its claim write has committed leaves every account record as it
\* was, and every slot as it was or reset.
C15_StoppedSignupLeavesNoAccount ==
    \A q \in Requests :
        \A x \in SignupRuns(q) :
            x.r.outcome = "error500"
            => /\ x.w.users = users
               /\ \A s \in SlotIds : x.w.slots[s] \in {slots[s], FreeSlot}

\* C16, its first part: when signups run concurrently, no step clears the
\* claim on a slot whose usedBy account exists, so a stale-lock reset never
\* undoes the claim that a live account wrote in the meantime.
C16_ResetSparesLiveClaims ==
    [][\A s \in SlotIds :
          (slots[s].isUsed /\ slots[s].usedBy \in DOMAIN users) => slots'[s].isUsed]_vars

\* C17 as stated: a signup whose stale-lock reset write fails, and that meets
\* no other failure, is accepted but not auto-approved, and leaves every slot
\* as it was.
C17_FailedResetKeepsLiveClaim ==
    \A q \in Requests :
        \A x \in SignupRuns(q) :
            (x.r.resetFault /\ x.r.outcome # "error500")
            => /\ x.r.outcome = "created"
               /\ x.w.users[x.r.savedUser].accountStatus # "approved"
               /\ x.w.slots = slots

\* C17, amended: a signup whose stale-lock reset write fails, and that meets
\* no other failure, is accepted and decided as if the reset had succeeded:
\* when its member ID and phone both match the slot it is auto-approved and
\* its claim write overwrites the slot's usedBy with the new account;
\* otherwise it is pending and no slot changes.
C17_FailedResetDecidesAsStale ==
    \A s \in SlotIds : (slots[s].isUsed /\ slots[s].usedBy \notin DOMAIN users) =>
        \A q \in Requests : s \in LookupResults[<<q.memberId, q.phone>>] =>
            \A x \in SignupRuns(q) :
                (x.r.resetFault /\ x.r.outcome # "error500" /\ x.r.am = s)
                => /\ x.r.outcome = "created"
                   /\ IF MemberIdMatches(s, q.memberId) /\ PhoneMatches(s, q.phone)
                      THEN /\ x.w.users[x.r.savedUser].accountStatus = "approved"
                           /\ x.w.slots[s] = [isUsed |-> TRUE, usedBy |-> x.r.savedUser,
                                              usedAt |-> TRUE]
                      ELSE /\ x.w.users[x.r.savedUser].accountStatus = "pending"
                           /\ x.w.slots = slots

\* a slot is held by a deleted account, and a signup served now whose reset
\* write fails ends auto-approved with the slot claimed by its account
C17_Witness ==
    \E s \in SlotIds :
        /\ slots[s].isUsed
        /\ slots[s].usedBy \notin DOMAIN users
        /\ \E q \in Requests : \E x \in SignupRuns(q) :
              /\ x.r.resetFault /\ x.r.outcome = "created"
              /\ x.w.users[x.r.savedUser].accountStatus = "approved"
              /\ x.w.slots[s].usedBy = x.r.savedUser

\* the handler's runs through its first two storage operations, the users
\* queries by member ID and by email
AfterUserQueries(q) ==
    UNION {IF y.r.pc = "done" THEN {y} ELSE Step(y.r, y.w) : y \in StartStep(q, World)}

C19_NoPhoneIsPendingWithoutLookup ==
    \A q \in Requests :
        q.phone = <<>>
        => LET decided == AfterUserQueries(q)
           IN  /\ \A y \in decided :
                     /\ y.r.pc \in {"done", "writeUser"}
                     /\ y.r.pc = "writeUser" =>
                           /\ y.r.accountStatus = "pending"
                           /\ y.r.requiresAdminApproval
                           /\ ~y.r.isVerified
               /\ \A x \in RunToEnd(decided) :
                     /\ x.r.am = NoSlot
                     /\ x.w.slots = slots
                     /\ x.r.outcome = "created" =>
                           /\ x.w.users[x.r.savedUser].accountStatus = "pending"
                           /\ ~x.r.token

\* a signup has just been accepted as pending, and the member ID of its
\* account is the one of a slot, which nobody has claimed
C19_Witness ==
    /\ resp.kind = "signup" /\ resp.outcome = "created" /\ ~resp.token
    /\ users[resp.user].accountStatus = "pending"
    /\ \E s \in SlotIds : MemberIdMatches(s, users[resp.user].memberId) /\ ~slots[s].isUsed
    /\ \E q \in Requests :
          /\ q.phone = <<>> /\ q.email = users[resp.user].email
          /\ q.memberId = users[resp.user].memberId

\* C20 (as stated): strict phone normalization of a non-empty value returns the
\* 10-digit canonical string when the value stripped of its non-digits has 10
\* digits, 11 digits with a leading 0 or 12 digits with a leading 91, and null
\* for every other value, a value without digits included.
C20_StrictPhoneByStrippedDigits ==
    (call.fn = "normalizePhoneProvided" /\ Trim(call.arg) # <<>>) =>
        LET d == StripNonDigits(call.arg)
        IN  IF Len(d) = 10 THEN call.result = d
            ELSE IF Len(d) = 11 /\ d[1] = "0" THEN call.result = SliceLast(d, 10)
            ELSE IF Len(d) = 12 /\ d[1] = "9" /\ d[2] = "1" THEN call.result = SliceLast(d, 10)
            ELSE call.result = Null

\* C20 (amended): strict phone normalization trims the value and, when the
\* value holds '.', 'e' or 'E' and denotes a finite number, replaces it by the
\* integer part of that number; the digits of what it then has decide: none
\* gives the empty string, 10 digits give those digits, 11 with a leading 0 or
\* 12 with a leading 91 give the last 10, and every other count gives null.
\* The result is the empty string, null, or exactly 10 digits.
C20_StrictPhoneCanonical ==
    call.fn = "normalizePhoneProvided" =>
        LET raw == Trim(call.arg)
            numeric == raw # <<>> /\ HasChar(raw, {"e", "E", "."})
            d == IF numeric /\ NumberTrunc(raw).finite
                 THEN StripNonDigits(NumberTrunc(raw).str)
                 ELSE StripNonDigits(raw)
            prefixed == \/ Len(d) = 11 /\ d[1] = "0"
                        \/ Len(d) = 12 /\ d[1] = "9" /\ d[2] = "1"
        IN  /\ call.result \in {<<>>, Null} \/ (Len(call.result) = 10 /\ AllDigits(call.result))
            /\ call.result = <<>> <=> d = <<>>
            /\ Len(d) = 10 => call.result = d
            /\ prefixed => call.result = SliceLast(d, 10)
            /\ (d # <<>> /\ Len(d) # 10 /\ ~prefixed) => call.result = Null

\* a value written as a decimal number was accepted although its stripped
\* digits are neither 10, 11 nor 12 of the accepted shapes
C20_Witness ==
    /\ call.fn = "normalizePhoneProvided"
    /\ HasChar(call.arg, {"."})
    /\ Len(call.result) = 10
    /\ call.result # Null
    /\ Len(StripNonDigits(call.arg)) = 13

\* C21: strict phone normalization is idempotent: when a call returned a
\* value other than null and the next call is given that value, the next call
\* returns the same value.
C21_StrictPhoneIdempotent ==
    [][( /\ call.fn = "normalizePhoneProvided"
         /\ call.result # Null
         /\ call'.fn = "normalizePhoneProvided"
         /\ call'.arg = call.result )
       => call'.result = call.result]_vars

\* a value that needed a prefix cut or a numeric repair was normalized, and the
\* canonical value it gave has now been normalized to itself
C21_Witness ==
    /\ call.fn = "normalizePhoneProvided"
    /\ call.arg = call.result
    /\ Len(call.result) = 10
    /\ \E x \in PhoneInputs : x # call.arg /\ normalizePhoneProvided(x) = call.arg

\* C22: on a string of digits for which the strict normalizer returned a
\* non-empty value, the lenient normalizer called next on the same string
\* returns that value; for a string of exactly 10 digits both return the
\* string itself.
C22_LenientAgreesWithStrict ==
    [][( /\ call.fn = "normalizePhoneProvided"
         /\ AllDigits(call.arg)
         /\ call.result \notin {<<>>, Null}
         /\ call'.fn = "normalizePhoneLenient"
         /\ call'.arg = call.arg )
       => /\ call'.result = call.result
          /\ Len(call.arg) = 10 => (call.result = call.arg /\ call'.result = call.arg)]_vars

\* the lenient normalizer has cut a 12-digit string with the country code to
\* the 10 digits the strict normalizer gives for it
C22_Witness ==
    /\ call.fn = "normalizePhoneLenient"
    /\ AllDigits(call.arg)
    /\ Len(call.arg) = 12
    /\ Len(call.result) = 10
    /\ normalizePhoneProvided(call.arg) = call.result

\* C23: in every reachable state an account with a non-empty rejectionReason
\* has status rejected (so every step out of rejected has cleared the reason).
C23_ReasonOnlyWhenRejected ==
    \A u \in DOMAIN users :
        users[u].rejectionReason # "" => users[u].accountStatus = "rejected"

\* C24: no step takes the admin role or the account from an admin unless
\* another admin exists who can have performed it: an admin never demotes or
\* deletes their own account.
C24_NoSelfDemotionOrDeletion ==
    [][\A a \in DOMAIN users :
          (IsAdmin(a) /\ (a \notin DOMAIN users' \/ users'[a].role # "admin"))
          => \E b \in DOMAIN users \ {a} : IsAdmin(b)]_vars

\* C25: whenever a signup has just created or updated an account whose email
\* is in ADMIN_EMAILS, that account has role admin and status approved,
\* whatever the verification decided.
C25_AdminEmailIsApprovedAdmin ==
    ( /\ resp.kind = "signup"
      /\ resp.outcome = "created"
      /\ users[resp.user].email \in AdminEmails )
    => /\ users[resp.user].role = "admin"
       /\ users[resp.user].accountStatus = "approved"

C28_UnapprovedSignupClaimsNothing ==
    [][( /\ resp'.kind = "signup"
         /\ ~(resp'.outcome = "created" /\ resp'.token) )
       => \A s \in SlotIds :
             \/ slots'[s] = slots[s]
             \/ /\ slots'[s] = FreeSlot
                /\ slots[s].isUsed
                /\ slots[s].usedBy \notin DOMAIN users]_vars

\* a signup has just been answered as pending for an account whose member ID
\* is the one of a registry slot, that slot is free, and an earlier account
\* is gone
C28_Witness ==
    /\ resp.kind = "signup" /\ resp.outcome = "created" /\ ~resp.token
    /\ users[resp.user].accountStatus = "pending"
    /\ \E s \in SlotIds : MemberIdMatches(s, users[resp.user].memberId) /\ slots[s] = FreeSlot
    /\ \E id \in 1..(nextId - 1) : id \notin DOMAIN users

\* C29: after any sequence of signups, re-applications, approvals and
\* rejections, every account has accountStatus approved with
\* verificationStatus verified, pending with pending_admin, or rejected with
\* unverified, and requiresAdminApproval is true exactly when accountStatus
\* is pending.
C29_StatusFieldsConsistent ==
    [](\A u \in DOMAIN users :
        /\ \/ users[u].accountStatus = "approved" /\ users[u].verificationStatus = "verified"
           \/ users[u].accountStatus = "pending" /\ users[u].verificationStatus = "pending_admin"
           \/ users[u].accountStatus = "rejected" /\ users[u].verificationStatus = "unverified"
        /\ users[u].requiresAdminApproval <=> (users[u].accountStatus = "pending"))

\* a rejected account stands next to an account that re-applied and is pending
\* again
C29_Witness ==
    /\ \E u \in DOMAIN users : users[u].accountStatus = "rejected"
    /\ \E u \in DOMAIN users : users[u].accountStatus = "pending" /\ users[u].reappliedAt

\* C30: after any sequence or interleaving of claim writes and stale lock
\* resets, every slot has isUsed true exactly when usedBy is set, and usedAt
\* set exactly when isUsed is true.
C30_SlotFieldsConsistent ==
    \A s \in SlotIds :
        /\ slots[s].isUsed <=> (slots[s].usedBy # NoUser)
        /\ slots[s].usedAt <=> slots[s].isUsed

\* a handler has just claimed a slot for its approved account while another
\* approved account with the member ID of that slot exists: the second claim
\* write went over the first
C30_Witness ==
    /\ resp.kind = "signup" /\ resp.outcome = "created" /\ resp.token
    /\ \E s \in SlotIds :
          /\ slots[s].usedBy = resp.user
          /\ \E u \in DOMAIN users \ {resp.user, AdminId} :
                /\ users[u].accountStatus = "approved"
                /\ MemberIdMatches(s, users[u].memberId)

====
